---- MODULE Spec2Model ----
(***************************************************************************)
(* A model of the immuni CI scheduler (src/scheduler.py and its helpers    *)
(* src/helpers/circleci.py, src/helpers/utils.py).                         *)
(*                                                                         *)
(* Nine specifications share one set of definitions:                       *)
(*   SpecSafety    the pure function _safety_check on bounded snapshots;   *)
(*   SpecFetch     CircleCI.fetch_pipelines, one loop iteration per step;  *)
(*   SpecFetchLive the same loop under weak fairness, for termination;     *)
(*   SpecPasses    several scheduler passes selecting their backlog while  *)
(*                 pipelines are submitted and other passes finish;        *)
(*   Spec          one run of check_and_schedule on a fixed project;       *)
(*   SpecNotify    sequential calls of _notify_safety_check;               *)
(*   SpecWorkers   the process pool running _run_danger inside utils.cd;   *)
(*   SpecOverlap   two runs notifying the same pull requests at once;      *)
(*   SpecThreads   the thread pool running _check_pipeline, interleaved.   *)
(***************************************************************************)
EXTENDS Integers, Sequences, FiniteSets, TLC

VARIABLES
    world,      \* the project's pipelines: world[n] is the kind of pipeline number n
    sc,         \* SpecSafety: the inputs of _safety_check and its result
    fetch,      \* SpecFetch: the arguments and the loop state of fetch_pipelines
    passes,     \* SpecPasses: passes[n] is the scheduler pass run by pipeline n
    run,        \* Spec: the position and the local variables of check_and_schedule
    github,     \* Spec: github[pr] is the sequence of comments of pull request pr
    effects,    \* Spec: what the run has done outside itself (comments, directories)
    pool        \* SpecWorkers: the Danger tasks, the pool's workers and the working directories

vars == <<world, sc, fetch, passes, run, github, effects, pool>>

(***************************************************************************)
(* Bounds of the model.                                                    *)
(***************************************************************************)
\* Pipelines per page of the CI provider's listing.
PageSize == 2
\* Longest listing SpecFetch draws.
MaxListing == 5
\* Pipelines submitted in SpecPasses.
MaxSubmitted == 4
\* Pipelines of the project in Spec.
MaxPipelines == 3
\* Calls of the notifier in SpecNotify.
MaxCalls == 3
\* Danger executions handed to the pool in SpecWorkers.
MaxTasks == 3
\* Scheduler runs that notify at the same time in SpecOverlap.
MaxRuns == 2

\* Python's None, for each type of value it stands in for: a fingerprint, a
\* pipeline id (stopping_pipeline_id = None), a limit (limit = None), a page
\* token (the last page's next_page_token) and a branch (branch = None).
None == "None"
NoId == 0
NoLimit == -1
NoToken == 0
NoBranch == << >>

(***************************************************************************)
(* The project: pipelines as the CI provider returns them.                 *)
(***************************************************************************)
\* scheduler.py:60-61, the defaults of REFERENCE_BRANCH and SCHEDULER_BRANCH.
REFERENCE_BRANCH == <<"master">>
SCHEDULER_BRANCH == <<"master">>
\* scheduler.py:64
SCHEDULER_WORKFLOW == "scheduler"

\* The organisation's repository, the target of every pipeline.
TargetRepo == "org/repo"

\* The kinds of pipeline a project holds:
\*   sched_ok   cron-triggered on the scheduler branch, scheduler workflow succeeded
\*   sched_run  cron-triggered on the scheduler branch, scheduler workflow running or failed
\*   commit     a push on the reference branch (no scheduler workflow, no pull request)
\*   fork1,2    pipelines of the forked pull requests 1 and 2 (branch pull/<n>)
\*   int3       a pipeline of the internal pull request 3 (branch feature)
\*   forkx      a pipeline of a fork whose branch name holds no pull/<number>
Kinds == {"sched_ok", "sched_run", "commit", "fork1", "fork2", "int3", "forkx"}

Branch(k) ==
    CASE k = "fork1" -> <<"pull/", "1">>
      [] k = "fork2" -> <<"pull/", "2">>
      [] k = "forkx" -> <<"patch">>
      [] k = "int3"  -> <<"feature">>
      [] OTHER       -> <<"master">>

Origin(k) == IF k \in {"fork1", "fork2", "forkx"} THEN "contributor/repo" ELSE TargetRepo

\* A pipeline of the listing (circleci.py:53-54, the provider's pipeline object).
\* Its number is its position in the order of submission; its id and its
\* revision are identified with the number.
Pipeline(w, n) ==
    [id |-> n, number |-> n,
     vcs |-> [revision |-> n,
              origin_repository_url |-> Origin(w[n]),
              target_repository_url |-> TargetRepo,
              branch |-> Branch(w[n])]]

\* circleci.py:168-175 get_pipeline_workflows: the workflows of a pipeline.
get_pipeline_workflows(w, id) ==
    CASE w[id] = "sched_ok"  -> <<[id |-> id, name |-> SCHEDULER_WORKFLOW, status |-> "success"]>>
      [] w[id] = "sched_run" -> <<[id |-> id, name |-> SCHEDULER_WORKFLOW, status |-> "running"]>>
      [] OTHER               -> <<[id |-> id, name |-> "build", status |-> "success"]>>

(***************************************************************************)
(* helpers/circleci.py: the pipeline listing and fetch_pipelines           *)
(***************************************************************************)
Min(S) == CHOOSE x \in S : \A y \in S : x <= y
Max(S) == CHOOSE x \in S : \A y \in S : x >= y

RECURSIVE Descending(_)
\* The numbers n, n-1, ..., 1.
Descending(n) == IF n = 0 THEN << >> ELSE <<n>> \o Descending(n - 1)

RECURSIVE SelectSeqBy(_, _, _)
\* The pipelines of the numbers `nums` (in that order) that are on `branch`.
SelectSeqBy(w, nums, branch) ==
    IF nums = << >> THEN << >>
    ELSE LET rest == SelectSeqBy(w, Tail(nums), branch)
         IN  IF branch = NoBranch \/ Branch(w[Head(nums)]) = branch
             THEN <<Pipeline(w, Head(nums))>> \o rest
             ELSE rest

\* The provider's listing of the project's pipelines, newest first, of one
\* branch when a branch is asked for.
Listing(w, branch) == SelectSeqBy(w, Descending(Len(w)), branch)

\* GET project/<slug>/pipeline (circleci.py:76-78): one page of the listing and
\* the token of the next page, None on the last page. The first request names
\* the branch; a page token stands for the listing it was issued for.
GetPipelinePage(w, params) ==
    LET listing == Listing(w, params.branch)
        first == (params.page - 1) * PageSize + 1
        last == IF params.page * PageSize < Len(listing)
                THEN params.page * PageSize ELSE Len(listing)
    IN  [items |-> SubSeq(listing, first, last),
         next_page_token |-> IF params.page * PageSize < Len(listing)
                             THEN params.page + 1 ELSE NoToken]

\* circleci.py:122-146 filter_pipelines: the pipelines before the first one
\* whose id is the stopping id, and whether that one was met.
filter_pipelines(pipelines, stopping_pipeline_id) ==
    LET hits == {i \in 1..Len(pipelines) :
                    stopping_pipeline_id # NoId /\ pipelines[i].id = stopping_pipeline_id}
    IN  IF hits = {}
        THEN [pipelines |-> pipelines, found_stopping_pipeline |-> FALSE]
        ELSE [pipelines |-> SubSeq(pipelines, 1, Min(hits) - 1),
              found_stopping_pipeline |-> TRUE]

\* The arguments of fetch_pipelines (circleci.py:43-52). A list of workflow
\* names is a set; None and the empty list, both not given, are the empty set.
Given(names) == names # {}

\* circleci.py:89-109: whether a pipeline matches the workflow and success filters.
Matching(w, args, pipeline) ==
    LET workflows == get_pipeline_workflows(w, pipeline.id)
        names == {workflows[i].name : i \in 1..Len(workflows)}
        workflows_to_check ==
            IF ~Given(args.containing_workflows)
            THEN {i \in 1..Len(workflows) : TRUE}
            ELSE {i \in 1..Len(workflows) : workflows[i].name \in args.containing_workflows}
    IN  /\ Given(args.containing_workflows) =>
              \A name \in args.containing_workflows : name \in names
        /\ Given(args.not_containing_workflows) =>
              \A name \in args.not_containing_workflows : name \notin names
        /\ args.successful_only =>
              \A i \in workflows_to_check : workflows[i].status = "success"

RECURSIVE match_loop(_, _, _, _, _)
\* circleci.py:84-111: the loop over one page's filtered pipelines when a filter
\* is given. acc holds the retrieved pipelines, the stop flag and the number of
\* workflow lookups made.
match_loop(w, args, filtered, i, acc) ==
    IF i > Len(filtered) THEN acc
    ELSE IF args.limit # NoLimit /\ Len(acc.retrieved) >= args.limit
    THEN [acc EXCEPT !.found = TRUE]
    ELSE match_loop(w, args, filtered, i + 1,
            [acc EXCEPT !.retrieved = IF Matching(w, args, filtered[i])
                                      THEN Append(@, filtered[i]) ELSE @,
                        !.lookups = @ + 1])

\* The state of fetch_pipelines before its loop (circleci.py:70-72).
fetch_start(args) ==
    [params |-> [branch |-> args.branch, page |-> 1],
     retrieved |-> << >>, stopping |-> FALSE, pages |-> << >>, lookups |-> 0]

\* fetch_iteration with a loop condition that forgets the stopping pipeline.
fetch_iteration_ignoring_stop(w, args, st) ==
    LET response == GetPipelinePage(w, st.params)
        fp == filter_pipelines(response.items, args.stopping_pipeline_id)
    IN  [params |-> [branch |-> st.params.branch, page |-> response.next_page_token],
         retrieved |-> st.retrieved \o fp.pipelines,
         stopping |-> response.next_page_token = NoToken \/ ~args.multipage,
         pages |-> Append(st.pages, st.params.page),
         lookups |-> st.lookups]

\* fetch_iteration with a loop condition that forgets the multipage argument.
fetch_iteration_ignoring_multipage(w, args, st) ==
    LET response == GetPipelinePage(w, st.params)
        fp == filter_pipelines(response.items, args.stopping_pipeline_id)
    IN  [params |-> [branch |-> st.params.branch, page |-> response.next_page_token],
         retrieved |-> st.retrieved \o fp.pipelines,
         stopping |-> fp.found_stopping_pipeline \/ response.next_page_token = NoToken,
         pages |-> Append(st.pages, st.params.page),
         lookups |-> st.lookups]

\* circleci.py:75-118: one iteration of the loop of fetch_pipelines. pages
\* records the pages requested and lookups counts the workflow lookups.
fetch_iteration(w, args, st) ==
    LET response == GetPipelinePage(w, st.params)
        fp == filter_pipelines(response.items, args.stopping_pipeline_id)
        filtering == Given(args.containing_workflows)
                     \/ Given(args.not_containing_workflows) \/ args.successful_only
        acc == IF filtering
               THEN match_loop(w, args, fp.pipelines, 1,
                        [retrieved |-> st.retrieved,
                         found |-> fp.found_stopping_pipeline,
                         lookups |-> st.lookups])
               ELSE [retrieved |-> st.retrieved \o fp.pipelines,
                     found |-> fp.found_stopping_pipeline,
                     lookups |-> st.lookups]
    IN  [params |-> [branch |-> st.params.branch, page |-> response.next_page_token],
         retrieved |-> acc.retrieved,
         stopping |-> acc.found \/ response.next_page_token = NoToken \/ ~args.multipage,
         pages |-> Append(st.pages, st.params.page),
         lookups |-> acc.lookups]

RECURSIVE fetch_loop(_, _, _)
fetch_loop(w, args, st) ==
    IF st.stopping THEN st ELSE fetch_loop(w, args, fetch_iteration(w, args, st))

\* circleci.py:43-120 fetch_pipelines: the pipelines it returns.
fetch_pipelines(w, args) == fetch_loop(w, args, fetch_start(args)).retrieved

\* The default arguments of fetch_pipelines (circleci.py:45-51).
FetchDefaults ==
    [branch |-> NoBranch, containing_workflows |-> {}, limit |-> NoLimit, multipage |-> FALSE,
     not_containing_workflows |-> {}, stopping_pipeline_id |-> NoId,
     successful_only |-> FALSE]

(***************************************************************************)
(* check_and_schedule: the reference pipeline and the backlog              *)
(***************************************************************************)
RECURSIVE Reverse(_)
\* reversed(...)
Reverse(s) == IF s = << >> THEN << >> ELSE Append(Reverse(Tail(s)), Head(s))

\* scheduler.py:118-123: the latest pipeline of the reference branch that does
\* not contain the scheduler workflow.
fetch_reference_pipelines(w) ==
    fetch_pipelines(w, [FetchDefaults EXCEPT
        !.branch = REFERENCE_BRANCH,
        !.not_containing_workflows = {SCHEDULER_WORKFLOW},
        !.limit = 1,
        !.multipage = TRUE])

\* fetch_latest_scheduler_pipeline reading every page of the scheduler branch.
fetch_latest_scheduler_pipeline_every_page(w) ==
    LET scheduler_pipelines ==
            fetch_pipelines(w, [FetchDefaults EXCEPT
                !.branch = SCHEDULER_BRANCH,
                !.containing_workflows = {SCHEDULER_WORKFLOW},
                !.multipage = TRUE,
                !.successful_only = TRUE])
    IN  IF scheduler_pipelines # << >> THEN scheduler_pipelines[1].id ELSE NoId

\* scheduler.py:145-151: the id of the latest successful scheduler pipeline on
\* the first page of the scheduler branch, NoId when there is none.
fetch_latest_scheduler_pipeline(w) ==
    LET scheduler_pipelines ==
            fetch_pipelines(w, [FetchDefaults EXCEPT
                !.branch = SCHEDULER_BRANCH,
                !.containing_workflows = {SCHEDULER_WORKFLOW},
                !.multipage = FALSE,
                !.successful_only = TRUE])
    IN  IF scheduler_pipelines # << >> THEN scheduler_pipelines[1].id ELSE NoId

\* scheduler.py:154-159: the pipelines listed before the latest successful
\* scheduler pipeline, over every page.
fetch_pipelines_to_check(w, latest_scheduler_pipeline_id) ==
    fetch_pipelines(w, [FetchDefaults EXCEPT
        !.multipage = TRUE,
        !.stopping_pipeline_id = latest_scheduler_pipeline_id])

\* filter_older_than_own with the listing read newest first: the pipelines
\* submitted after the scheduler's own are kept instead of the ones before it.
filter_newer_than_own(to_check, starting_pipeline_id) ==
    filter_pipelines(to_check, starting_pipeline_id).pipelines

\* scheduler.py:166-172: under CircleCI, keep the pipelines submitted before the
\* scheduler's own pipeline (the pipeline of workflow CIRCLE_WORKFLOW_ID).
filter_older_than_own(to_check, starting_pipeline_id) ==
    Reverse(filter_pipelines(Reverse(to_check), starting_pipeline_id).pipelines)

(***************************************************************************)
(* helpers/utils.py and _safety_check                                      *)
(***************************************************************************)
\* The configured protected files (scheduler.py:83) and the digests a file can have.
PROTECTED_FILES == {"config.yaml", "Dangerfile", "danger_rules.ts"}
Digests == {"D1", "D2"}
\* A fingerprint: a digest, or None for a file that does not exist (utils.py:84-100).
Fingerprints == Digests \cup {None}
Configs == {"cfgA", "cfgB"}
\* get_submodule_sha: the submodule's SHA, or "" without the submodule (utils.py:70-81).
SubmoduleShas == {"", "s1", "s2"}

\* hashlib.sha256(text).hexdigest(): distinct texts have distinct digests.
sha256(text) == <<"sha256", text>>

\* utils.py:55-67
get_files_by_hash_map(file_hashes) ==
    {file \in DOMAIN file_hashes : file_hashes[file] # None}

\* A text is a sequence of characters. A name is spelled with each Markdown
\* special character on its own and each run of other characters as one.
MarkdownSpecials == {"_", "*"}
Spell(name) == IF name = "danger_rules.ts" THEN <<"danger", "_", "rules.ts">> ELSE <<name>>

RECURSIVE Enumerate(_)
\* The elements of a set in the order a Python loop meets them (some order).
Enumerate(S) ==
    IF S = {} THEN << >>
    ELSE LET x == CHOOSE y \in S : TRUE IN <<x>> \o Enumerate(S \ {x})

RECURSIVE join(_, _)
\* sep.join(names)
join(sep, names) ==
    IF names = << >> THEN << >>
    ELSE IF Len(names) = 1 THEN Spell(names[1])
    ELSE Spell(names[1]) \o <<sep>> \o join(sep, Tail(names))

RECURSIVE esc_format(_)
\* markdown_strings.esc_format: a backslash before each Markdown special.
esc_format(text) ==
    IF text = << >> THEN << >>
    ELSE (IF Head(text) \in MarkdownSpecials THEN <<"\\", Head(text)>> ELSE <<Head(text)>>)
         \o esc_format(Tail(text))

\* One line of the check's message: the dimension it reports and the text of
\* the file names it lists (empty for the lines that list none).
Finding(what, files) == [what |-> what, files |-> files]

\* file_finding listing a single file of the set.
file_finding_first_only(what, files) ==
    IF files # {}
    THEN <<Finding(what, esc_format(Spell(CHOOSE f \in files : TRUE)))>>
    ELSE << >>

\* scheduler.py:489-502: the line of a non-empty set of added, deleted or
\* modified files, their names joined by ", " and escaped.
file_finding(what, files) ==
    IF files # {}
    THEN <<Finding(what, esc_format(join(", ", Enumerate(files))))>>
    ELSE << >>

\* _safety_check without the comparison of the submodule revisions.
safety_check_no_submodule(current_protected_file_hashes, current_scheduler_sha, pipeline_config, reference_config, reference_protected_file_hashes, reference_scheduler_sha) ==
    LET current_protected_files == get_files_by_hash_map(current_protected_file_hashes)
        reference_protected_files == get_files_by_hash_map(reference_protected_file_hashes)
        added_files == current_protected_files \ reference_protected_files
        common_files == reference_protected_files \cap current_protected_files
        deleted_files == reference_protected_files \ current_protected_files
        modified_files == {f \in common_files :
            reference_protected_file_hashes[f] # current_protected_file_hashes[f]}
        m1 == file_finding("added", added_files)
        m2 == file_finding("deleted", deleted_files)
        m3 == file_finding("modified", modified_files)
        m4 == IF sha256(pipeline_config) # sha256(reference_config)
              THEN <<Finding("config", << >>)>> ELSE << >>
    IN  [safe |-> added_files = {} /\ deleted_files = {} /\ modified_files = {}
                  /\ sha256(pipeline_config) = sha256(reference_config),
         message |-> m1 \o m2 \o m3 \o m4]

\* scheduler.py:450-517 _safety_check. The message is the sequence of its lines.
safety_check(current_protected_file_hashes, current_scheduler_sha, pipeline_config, reference_config, reference_protected_file_hashes, reference_scheduler_sha) ==
    LET current_protected_files == get_files_by_hash_map(current_protected_file_hashes)
        reference_protected_files == get_files_by_hash_map(reference_protected_file_hashes)
        added_files == current_protected_files \ reference_protected_files
        common_files == reference_protected_files \cap current_protected_files
        deleted_files == reference_protected_files \ current_protected_files
        modified_files == {f \in common_files :
            reference_protected_file_hashes[f] # current_protected_file_hashes[f]}
        m1 == file_finding("added", added_files)
        m2 == file_finding("deleted", deleted_files)
        m3 == file_finding("modified", modified_files)
        pipeline_config_hash == sha256(pipeline_config)
        reference_config_hash == sha256(reference_config)
        m4 == IF pipeline_config_hash # reference_config_hash
              THEN <<Finding("config", << >>)>> ELSE << >>
        m5 == IF current_scheduler_sha # reference_scheduler_sha
              THEN <<Finding("submodule", << >>)>> ELSE << >>
    IN  [safe |-> added_files = {} /\ deleted_files = {} /\ modified_files = {}
                  /\ pipeline_config_hash = reference_config_hash
                  /\ current_scheduler_sha = reference_scheduler_sha,
         message |-> m1 \o m2 \o m3 \o m4 \o m5]

\* A snapshot: the fingerprints of the protected files, the compiled
\* configuration and the revision of the scheduler submodule.
Snapshots ==
    [files : [PROTECTED_FILES -> Fingerprints], config : Configs, sha : SubmoduleShas]

\* The verdict of a candidate snapshot against a reference snapshot, as
\* _check_pipeline asks for it (scheduler.py:280-287).
Verdict(ref, cand) ==
    safety_check(cand.files, cand.sha, cand.config, ref.config, ref.files, ref.sha)

(***************************************************************************)
(* scheduler.py: _check_pipeline, _notify_safety_check                     *)
(***************************************************************************)
\* The pull requests of the project: 1 and 2 come from forks, 3 is internal.
PullRequests == {1, 2, 3}

\* Optional[Set[int]]: None is the empty sequence, a set S is <<S>>.
NoPRs == << >>
SomePRs(prs) == <<prs>>
\* `if p.pull_requests:` (scheduler.py:195): neither None nor the empty set.
Truthy(pull_requests) == pull_requests # << >> /\ pull_requests[1] # {}

\* branch.split("pull/"): the parts of a branch name around "pull/".
split_pull(branch) ==
    IF branch[1] = "pull/"
    THEN <<"", IF Len(branch) > 1 THEN branch[2] ELSE "">>
    ELSE <<branch[1]>>

\* int(text) for the decimal numerals of the pull requests.
Numerals == {"1", "2", "3"}
int(text) == CASE text = "1" -> 1 [] text = "2" -> 2 [] text = "3" -> 3

\* scheduler.py:313: int(pipeline["vcs"]["branch"].split("pull/")[1]); it raises
\* IndexError without "pull/" in the name and ValueError without a number after it.
parse_pull_request(branch) ==
    LET parts == split_pull(branch)
    IN  IF Len(parts) < 2 \/ parts[2] \notin Numerals
        THEN [raised |-> TRUE, value |-> 0]
        ELSE [raised |-> FALSE, value |-> int(parts[2])]

\* The pull requests CircleCI links to the first job of a pipeline's first
\* workflow (circleci.py:148-158, 193-204).
get_workflow_prs(w, id) == IF w[id] = "int3" THEN {3} ELSE {}

\* The message of a failed checkout without the revision and the pipeline.
CheckoutFailedUnnamed(pipeline) == <<[what |-> "unable to checkout"]>>

\* The message of a failed checkout (scheduler.py:260-263): it names the
\* revision, and the pipeline by number and id.
CheckoutFailedDetails(pipeline) ==
    <<[what |-> "unable to checkout", revision |-> pipeline.vcs.revision,
       pipeline |-> [number |-> pipeline.number, id |-> pipeline.id]]>>

\* scheduler.py:35-45 DangerCandidatePipeline. The temporary directory of a
\* check is named after its pipeline.
DangerCandidatePipeline(check_details, pipeline, pull_requests, safe, should_run_danger) ==
    [check_details |-> check_details, commit |-> pipeline.vcs.revision,
     pipeline_nr |-> pipeline.number, pull_requests |-> pull_requests,
     repo_dir |-> pipeline.number, safe |-> safe,
     should_run_danger |-> should_run_danger]

\* What the outside world answers to one check: whether the checkout succeeds
\* (scheduler.py:256-259), the candidate snapshot found in the clone, and the
\* provider's answer when the pull requests of an internal pipeline are asked
\* for: "prs" (workflows and jobs are there), "no_workflows", "no_jobs", or
\* "raise" (the call fails).
Resolutions == {"prs", "no_workflows", "no_jobs", "raise"}

\* should_run_danger without the test for a forked pipeline.
should_run_danger_if_safe(internal, safe) == safe

\* scheduler.py:337: should_run_danger = not internal and safe.
should_run_danger(internal, safe) == ~internal /\ safe

\* The handler of scheduler.py:322-333 passing on the verdict with a guessed
\* pull request.
pull_requests_guessed(check_details, pipeline, safe, internal) ==
    DangerCandidatePipeline(check_details, pipeline, SomePRs({1}), safe,
                            should_run_danger(internal, safe))

\* scheduler.py:300-308 and 322-333: what _check_pipeline returns when the
\* pipeline has no workflows or the resolution of its pull requests raised.
pull_requests_unresolved(check_details, pipeline, safe, internal) ==
    DangerCandidatePipeline(check_details, pipeline, NoPRs, FALSE, FALSE)

\* scheduler.py:230-338 _check_pipeline, after get_pipeline_config has answered.
check_pipeline(w, pipeline, reference, checkout_ok, candidate, resolution) ==
    IF ~checkout_ok
    THEN DangerCandidatePipeline(CheckoutFailedDetails(pipeline), pipeline, NoPRs, FALSE, FALSE)
    ELSE
    LET verdict == Verdict(reference, candidate)
        internal == pipeline.vcs.origin_repository_url = pipeline.vcs.target_repository_url
        parsed == parse_pull_request(pipeline.vcs.branch)
        unresolved == pull_requests_unresolved(verdict.message, pipeline, verdict.safe, internal)
    IN  IF internal /\ resolution \in {"raise", "no_workflows"} THEN unresolved
        ELSE IF ~internal /\ parsed.raised THEN unresolved
        ELSE DangerCandidatePipeline(verdict.message, pipeline,
                SomePRs(IF internal
                        THEN (IF resolution = "no_jobs" THEN {}
                              ELSE get_workflow_prs(w, pipeline.id))
                        ELSE {parsed.value}),
                verdict.safe,
                should_run_danger(internal, verdict.safe))

\* What one call of _check_pipeline did besides its result: whether the
\* checkout succeeded, whether the provider was asked for the pull requests
\* (scheduler.py:297, 310: an internal pipeline that was checked out), and
\* the provider's answer ("unasked" when it was not asked).
check_trace(w, pipeline, checkout_ok, resolution) ==
    LET internal == pipeline.vcs.origin_repository_url = pipeline.vcs.target_repository_url
        asked == checkout_ok /\ internal
    IN  [checkout_ok |-> checkout_ok, asked |-> asked,
         resolution |-> IF asked THEN resolution ELSE "unasked"]

\* scheduler.py:65 and 417: the bot's login and the title of its comment.
VERIFIER_BOT_NAME == "bot"
SafetyTitle == "Safety Check"

\* scheduler.py:417-432: the message of a notification.
SafetyMessage(check_details, commit, safe, scheduler_workflow) ==
    [title |-> SafetyTitle, check_details |-> check_details, safe |-> safe,
     commit |-> commit, scheduler_pipeline |-> scheduler_workflow]

\* scheduler.py:437-440: the positions of the bot's safety-check comments.
left_comments(thread) ==
    {i \in 1..Len(thread) :
        thread[i].user = VERIFIER_BOT_NAME /\ thread[i].body.title = SafetyTitle}

\* _notify_safety_check without the search for the comment already left.
notify_always_create(thread, message) ==
    Append(thread, [user |-> VERIFIER_BOT_NAME, body |-> message])

\* scheduler.py:403-447 _notify_safety_check on the comments of one pull
\* request: the first comment the bot left is edited; without one, a comment
\* is created.
notify_safety_check(thread, message) ==
    IF left_comments(thread) # {}
    THEN [thread EXCEPT ![Min(left_comments(thread))].body = message]
    ELSE Append(thread, [user |-> VERIFIER_BOT_NAME, body |-> message])

\* scheduler.py:185-187: the results sorted by descending pipeline number.
sorted_pipelines(results) ==
    LET nrs == {results[i].pipeline_nr : i \in 1..Len(results)}
        rank(r) == Cardinality({n \in nrs : n > r.pipeline_nr}) + 1
    IN  [k \in 1..Len(results) |->
            CHOOSE r \in {results[i] : i \in 1..Len(results)} : rank(r) = k]

\* The test of scheduler.py:197 always taken: no pull request counts as seen.
seen_never(pull_request, prs_to_check) == FALSE

\* scheduler.py:197: whether the pull request was already met in this run.
seen(pull_request, prs_to_check) == pull_request \in prs_to_check

\* The test of scheduler.py:126 never taken.
never_halts(reference_pipelines) == FALSE

\* scheduler.py:126: `if not reference_pipelines`.
no_reference(reference_pipelines) == reference_pipelines = << >>

(***************************************************************************)
(* SpecSafety: _safety_check applied to every pair of snapshots.           *)
(***************************************************************************)
IdleWorld == << >>
IdleFetch == [pc |-> "idle"]
IdleSc == [pc |-> "idle"]
IdlePasses == << >>
IdleRun == [pc |-> "idle"]
IdleGithub == << >>
IdleEffects == << >>
IdlePool == [pc |-> "idle"]
Idle == run = IdleRun /\ github = IdleGithub /\ effects = IdleEffects /\ pool = IdlePool

SafetyInit ==
    /\ world = IdleWorld
    /\ fetch = IdleFetch
    /\ passes = IdlePasses
    /\ Idle
    /\ \E ref \in Snapshots, cand \in Snapshots :
         sc = [pc |-> "call", ref |-> ref, cand |-> cand]

SafetyCall ==
    /\ sc.pc = "call"
    /\ sc' = [pc |-> "returned", ref |-> sc.ref, cand |-> sc.cand,
              out |-> Verdict(sc.ref, sc.cand)]
    /\ UNCHANGED <<world, fetch, passes, run, github, effects, pool>>

SafetyNext == SafetyCall

SpecSafety == SafetyInit /\ [][SafetyNext]_vars

\* The present, added, deleted and modified files, read off the two fingerprint maps.
Present(files) == {f \in PROTECTED_FILES : files[f] # None}
Added(ref, cand) == {f \in PROTECTED_FILES : cand.files[f] # None /\ ref.files[f] = None}
Deleted(ref, cand) == {f \in PROTECTED_FILES : ref.files[f] # None /\ cand.files[f] = None}
Modified(ref, cand) ==
    {f \in PROTECTED_FILES :
        ref.files[f] # None /\ cand.files[f] # None /\ ref.files[f] # cand.files[f]}

\* C2: _safety_check returns safe = true if and only if no protected file is
\* added, deleted or modified (a file is present only when its fingerprint is
\* not None), the compiled configurations are equal and the submodule
\* revisions are equal; so one violated dimension alone makes it unsafe.
C2_SafeIffNoDifference ==
    sc.pc = "returned" =>
        (sc.out.safe <=>
            /\ Added(sc.ref, sc.cand) = {}
            /\ Deleted(sc.ref, sc.cand) = {}
            /\ Modified(sc.ref, sc.cand) = {}
            /\ sc.cand.config = sc.ref.config
            /\ sc.cand.sha = sc.ref.sha)

\* The check has returned unsafe for a candidate that differs from its
\* reference in the submodule revision alone.
C2_Witness ==
    /\ sc.pc = "returned"
    /\ sc.cand.files = sc.ref.files
    /\ sc.cand.config = sc.ref.config
    /\ sc.cand.sha # sc.ref.sha
    /\ ~sc.out.safe

RECURSIVE Rendered(_)
\* What a reader of the comment sees: Markdown drops the backslash of an
\* escaped special character.
Rendered(text) ==
    IF text = << >> THEN << >>
    ELSE IF Head(text) = "\\" /\ Len(text) >= 2 /\ text[2] \in MarkdownSpecials
    THEN <<text[2]>> \o Rendered(Tail(Tail(text)))
    ELSE <<Head(text)>> \o Rendered(Tail(text))

RECURSIVE Split(_, _)
\* The pieces of a text between the occurrences of a separator.
Split(text, sep) ==
    LET ats == {i \in 1..Len(text) : text[i] = sep}
    IN  IF ats = {} THEN <<text>>
        ELSE <<SubSeq(text, 1, Min(ats) - 1)>> \o Split(SubSeq(text, Min(ats) + 1, Len(text)), sep)

\* The lines of a message that report a dimension.
FindingsOf(message, what) == {i \in 1..Len(message) : message[i].what = what}

\* Whether the message reports a set of files exactly: no line for an empty
\* set, and for a non-empty one a single line whose rendered text names each
\* file of the set once and nothing else.
ListsExactly(message, what, files) ==
    LET lines == FindingsOf(message, what)
    IN  IF files = {} THEN lines = {}
        ELSE /\ Cardinality(lines) = 1
             /\ \A i \in lines :
                    LET names == Split(Rendered(message[i].files), ", ")
                    IN  /\ Len(names) = Cardinality(files)
                        /\ {names[k] : k \in 1..Len(names)} = {Spell(f) : f \in files}

\* Whether the message reports a dimension without files by one line of its
\* own exactly when the dimension fails.
ReportsOnce(message, what, failing) ==
    Cardinality(FindingsOf(message, what)) = IF failing THEN 1 ELSE 0

Dimensions == {"added", "deleted", "modified", "config", "submodule"}

\* C23: the report of _safety_check holds one separate line for each failing
\* dimension (added, deleted, modified files, configuration, submodule
\* revision) and none for the others, each file line lists exactly the files
\* of its set, and the report is empty if and only if the verdict is safe.
C23_OneFindingPerDimension ==
    sc.pc = "returned" =>
        LET message == sc.out.message
        IN  /\ ListsExactly(message, "added", Added(sc.ref, sc.cand))
            /\ ListsExactly(message, "deleted", Deleted(sc.ref, sc.cand))
            /\ ListsExactly(message, "modified", Modified(sc.ref, sc.cand))
            /\ ReportsOnce(message, "config", sc.cand.config # sc.ref.config)
            /\ ReportsOnce(message, "submodule", sc.cand.sha # sc.ref.sha)
            /\ \A i \in 1..Len(message) : message[i].what \in Dimensions
            /\ (message = << >>) <=> sc.out.safe

\* The check has returned for a candidate that fails the five dimensions at
\* once: one file added, one deleted, one modified (the file whose name needs
\* escaping among them), another configuration and another submodule revision.
C23_Witness ==
    /\ sc.pc = "returned"
    /\ Cardinality(Added(sc.ref, sc.cand)) = 1
    /\ Cardinality(Deleted(sc.ref, sc.cand)) = 1
    /\ Modified(sc.ref, sc.cand) = {"danger_rules.ts"}
    /\ sc.cand.config # sc.ref.config
    /\ sc.cand.sha # sc.ref.sha
    /\ Len(sc.out.message) = 5


(***************************************************************************)
(* SpecFetch: fetch_pipelines on every listing and every combination of    *)
(* arguments within the bounds, one iteration of its loop per step.        *)
(***************************************************************************)
\* The kinds that differ for fetch_pipelines (by branch or by workflows).
FetchKinds == {"sched_ok", "sched_run", "commit", "fork1"}
\* The limits asked for: none, or a number of pipelines.
Limits == {NoLimit, 1, 2}

RECURSIVE Worlds(_, _)
\* The projects of at most n pipelines of the given kinds.
Worlds(kinds, n) ==
    IF n = 0 THEN {<< >>}
    ELSE LET shorter == Worlds(kinds, n - 1)
         IN  shorter \cup {Append(w, k) : w \in shorter, k \in kinds}

FetchArgs(w) ==
    [branch : {NoBranch, REFERENCE_BRANCH},
     containing_workflows : {{}, {SCHEDULER_WORKFLOW}},
     limit : Limits,
     multipage : BOOLEAN,
     not_containing_workflows : {{}, {SCHEDULER_WORKFLOW}},
     stopping_pipeline_id : {NoId} \cup (1..Len(w)),
     successful_only : BOOLEAN]

FetchInit ==
    /\ sc = IdleSc
    /\ passes = IdlePasses
    /\ Idle
    /\ world \in Worlds(FetchKinds, MaxListing)
    /\ \E args \in FetchArgs(world) :
         fetch = [pc |-> "loop", args |-> args, st |-> fetch_start(args)]

\* One iteration of the while loop (circleci.py:75-118).
FetchPage ==
    /\ fetch.pc = "loop"
    /\ ~fetch.st.stopping
    /\ fetch' = [fetch EXCEPT !.st = fetch_iteration(world, fetch.args, fetch.st)]
    /\ UNCHANGED <<world, sc, passes, run, github, effects, pool>>

\* The loop has ended: return retrieved_pipelines (circleci.py:120).
FetchReturn ==
    /\ fetch.pc = "loop"
    /\ fetch.st.stopping
    /\ fetch' = [fetch EXCEPT !.pc = "returned"]
    /\ UNCHANGED <<world, sc, passes, run, github, effects, pool>>

FetchNext == FetchPage \/ FetchReturn

SpecFetch == FetchInit /\ [][FetchNext]_vars


\* Whether a workflow or success filter is given (circleci.py:83).
Filtering(args) ==
    Given(args.containing_workflows) \/ Given(args.not_containing_workflows)
        \/ args.successful_only

\* The positions of the listing that hold the pipeline with this id.
PositionsOf(listing, id) == {i \in 1..Len(listing) : listing[i].id = id}

\* The page of the listing that holds position i.
PageOf(i) == (i + PageSize - 1) \div PageSize

\* C8: with multipage = true, no workflow or success filter and a stopping
\* pipeline that is on page k of the listing, fetch_pipelines requests the
\* pages 1..k and no page after page k, and returns exactly the pipelines
\* listed before the stopping pipeline, in listing order, without it.
C8_PaginationStop ==
    LET listing == Listing(world, fetch.args.branch)
        at == PositionsOf(listing, fetch.args.stopping_pipeline_id)
    IN  (/\ fetch.pc = "returned"
         /\ fetch.args.multipage
         /\ ~Filtering(fetch.args)
         /\ at # {})
        => /\ fetch.st.retrieved = SubSeq(listing, 1, Min(at) - 1)
           /\ fetch.st.pages = [i \in 1..PageOf(Min(at)) |-> i]

\* fetch_pipelines has returned after meeting the stopping pipeline on page 2
\* of a listing of three pages.
C8_Witness ==
    LET listing == Listing(world, fetch.args.branch)
        at == PositionsOf(listing, fetch.args.stopping_pipeline_id)
    IN  /\ fetch.pc = "returned"
        /\ fetch.args.multipage
        /\ ~Filtering(fetch.args)
        /\ at # {}
        /\ PageOf(Min(at)) = 2
        /\ Len(listing) > 2 * PageSize
        /\ Len(fetch.st.retrieved) > PageSize

RECURSIVE SelectMatching(_, _, _)
\* The pipelines of a sequence that match the filters of args, in order.
SelectMatching(w, args, pipelines) ==
    IF pipelines = << >> THEN << >>
    ELSE LET rest == SelectMatching(w, args, Tail(pipelines))
         IN  IF Matching(w, args, Head(pipelines)) THEN <<Head(pipelines)>> \o rest ELSE rest

IsPrefix(s, t) == Len(s) <= Len(t) /\ s = SubSeq(t, 1, Len(s))

\* C9: whenever limit is set to n, fetch_pipelines returns at most n
\* pipelines, the first n matching pipelines in listing order, whatever the
\* other arguments are.
C9_LimitBoundsResult ==
    (fetch.pc = "returned" /\ fetch.args.limit # NoLimit)
    => /\ Len(fetch.st.retrieved) <= fetch.args.limit
       /\ IsPrefix(fetch.st.retrieved,
                   SelectMatching(world, fetch.args, Listing(world, fetch.args.branch)))


\* The listings of the fair specification hold two kinds of pipeline, one that
\* matches the scheduler filter and one that does not. The calls are the two
\* shapes check_and_schedule uses, the whole listing and the first match of a
\* workflow filter, each with and without multipage and a stopping pipeline.
LiveKinds == {"sched_ok", "commit"}

FetchLiveArgs(w) ==
    {[FetchDefaults EXCEPT !.containing_workflows = shape.cw, !.limit = shape.limit,
                           !.multipage = multipage, !.stopping_pipeline_id = id] :
        shape \in {[cw |-> {}, limit |-> NoLimit], [cw |-> {SCHEDULER_WORKFLOW}, limit |-> 1]},
        multipage \in BOOLEAN, id \in {NoId} \cup (1..Len(w))}

\* Before the call: the project holds no pipeline and no argument is given.
FetchLiveInit ==
    /\ sc = IdleSc
    /\ passes = IdlePasses
    /\ Idle
    /\ world = IdleWorld
    /\ fetch = [pc |-> "call", args |-> FetchDefaults, st |-> fetch_start(FetchDefaults)]

\* A pipeline is submitted to the project before the call.
FetchSubmit(k) ==
    /\ fetch.pc = "call"
    /\ Len(world) < MaxListing
    /\ world' = Append(world, k)
    /\ UNCHANGED <<sc, fetch, passes, run, github, effects, pool>>

\* The caller invokes fetch_pipelines (circleci.py:43-72) with some arguments
\* on the listing the project has by then.
FetchCall ==
    /\ fetch.pc = "call"
    /\ \E args \in FetchLiveArgs(world) :
         fetch' = [pc |-> "loop", args |-> args, st |-> fetch_start(args)]
    /\ UNCHANGED <<world, sc, passes, run, github, effects, pool>>

FetchLiveNext ==
    \/ \E k \in LiveKinds : FetchSubmit(k)
    \/ FetchCall
    \/ FetchPage
    \/ FetchReturn

\* The interpreter runs the loop of a call to its end: an iteration that can be
\* taken is taken, and the return follows the last one.
SpecFetchLive ==
    FetchLiveInit /\ [][FetchLiveNext]_vars /\ WF_vars(FetchPage \/ FetchReturn)

\* Page j of the listing fetch_pipelines reads.
PageRead(j) == GetPipelinePage(world, [branch |-> fetch.args.branch, page |-> j])

\* Whether page j holds the stopping pipeline.
HoldsStop(j) ==
    /\ fetch.args.stopping_pipeline_id # NoId
    /\ \E i \in 1..Len(PageRead(j).items) :
           PageRead(j).items[i].id = fetch.args.stopping_pipeline_id

\* The requests of fetch_pipelines so far: the pages 1, 2, ... in order; one
\* page at most without multipage; a page after page j only when page j did
\* not hold the stopping pipeline and carried a token; no page after a page
\* without a token.
PageRequests ==
    LET pages == fetch.st.pages
    IN  /\ pages = [j \in 1..Len(pages) |-> j]
        /\ ~fetch.args.multipage => Len(pages) <= 1
        /\ fetch.pc = "returned" => Len(pages) >= 1
        /\ fetch.pc = "call" => Len(pages) = 0
        /\ \A j \in 2..Len(pages) :
               /\ fetch.args.multipage
               /\ ~HoldsStop(j - 1)
               /\ PageRead(j - 1).next_page_token # NoToken
        /\ \A j \in 1..Len(pages) :
               PageRead(j).next_page_token = NoToken
               => j = Len(pages) /\ fetch.st.stopping

\* C21: fetch_pipelines requests exactly one page when multipage is false;
\* with multipage it requests a further page only if the page just read did
\* not hold the stopping pipeline and carried a continuation token; it stops
\* at a page without a token, and so it returns on every finite listing.
C21_PagesAndTermination == [](PageRequests) /\ <>[](fetch.pc # "loop")

\* fetch_pipelines has returned after reading every page of a listing of
\* three pages, the last one being the page without a token.
C21_Witness ==
    /\ fetch.pc = "returned"
    /\ fetch.args.multipage
    /\ Len(fetch.st.pages) = 3
    /\ ~HoldsStop(1) /\ ~HoldsStop(2) /\ ~HoldsStop(3)
    /\ PageRead(3).next_page_token = NoToken


\* C22: with a workflow or success filter and limit = n, once n matching
\* pipelines are collected fetch_pipelines has made exactly the requests that
\* collecting them took, the workflow lookups of the pipelines listed up to
\* the n-th match and the pages up to its page, and it makes no other one.
C22_NoRequestAfterLimit ==
    LET listing == Listing(world, fetch.args.branch)
        n == fetch.args.limit
    IN  (/\ fetch.pc \in {"loop", "returned"}
         /\ Filtering(fetch.args)
         /\ n # NoLimit
         /\ Len(fetch.st.retrieved) >= n)
        => LET at == Min(PositionsOf(listing, fetch.st.retrieved[n].id))
           IN  /\ fetch.st.lookups = at
               /\ Len(fetch.st.pages) = PageOf(at)

(***************************************************************************)
(* SpecPasses: scheduler passes under CircleCI. Pipelines are submitted    *)
(* while passes run; a scheduler pipeline runs one pass of                 *)
(* check_and_schedule, whose calls to the provider are the steps. A pass   *)
(* is followed up to the list of pipelines it verifies.                    *)
(***************************************************************************)
SubmittedKinds == {"sched_run", "commit", "fork1"}

NoPass == [pc |-> "none", lower |-> NoId, to_check |-> << >>, seen |-> << >>]

PassesInit ==
    /\ sc = IdleSc
    /\ fetch = IdleFetch
    /\ world = << >>
    /\ passes = << >>
    /\ Idle

\* A pipeline is submitted: a push, a pull request's commit, or the cron
\* trigger of the scheduler, whose workflow starts a pass.
Submit(k) ==
    /\ Len(world) < MaxSubmitted
    /\ world' = Append(world, k)
    /\ passes' = Append(passes, IF k = "sched_run" THEN [NoPass EXCEPT !.pc = "start"]
                                ELSE NoPass)
    /\ UNCHANGED <<sc, fetch, run, github, effects, pool>>

\* scheduler.py:118-128: without a reference pipeline the pass exits with status 1.
PassReference(p) ==
    /\ passes[p].pc = "start"
    /\ passes' = [passes EXCEPT ![p].pc =
            IF fetch_reference_pipelines(world) = << >> THEN "halted" ELSE "reference"]
    /\ UNCHANGED <<world, sc, fetch, run, github, effects, pool>>

\* scheduler.py:145-151. seen keeps the project as it was at this lookup.
PassLower(p) ==
    /\ passes[p].pc = "reference"
    /\ passes' = [passes EXCEPT ![p].pc = "lower",
                                ![p].lower = fetch_latest_scheduler_pipeline(world),
                                ![p].seen = world]
    /\ UNCHANGED <<world, sc, fetch, run, github, effects, pool>>

\* scheduler.py:154-159
PassBacklog(p) ==
    /\ passes[p].pc = "lower"
    /\ passes' = [passes EXCEPT ![p].pc = "backlog",
                                ![p].to_check = fetch_pipelines_to_check(world, passes[p].lower)]
    /\ UNCHANGED <<world, sc, fetch, run, github, effects, pool>>

\* scheduler.py:165-187: CIRCLE_WORKFLOW_ID names the pass's own workflow, whose
\* pipeline is p; the pipelines kept are then all handed to _check_pipeline.
PassVerify(p) ==
    /\ passes[p].pc = "backlog"
    /\ passes' = [passes EXCEPT ![p].pc = "verified",
                                ![p].to_check = filter_older_than_own(passes[p].to_check, p)]
    /\ UNCHANGED <<world, sc, fetch, run, github, effects, pool>>

\* The pass ends: its scheduler workflow succeeds, or fails when the run raised.
PassFinish(p, ok) ==
    /\ passes[p].pc = "verified"
    /\ passes' = [passes EXCEPT ![p].pc = IF ok THEN "succeeded" ELSE "failed"]
    /\ world' = [world EXCEPT ![p] = IF ok THEN "sched_ok" ELSE @]
    /\ UNCHANGED <<sc, fetch, run, github, effects, pool>>

PassesNext ==
    \/ \E k \in SubmittedKinds : Submit(k)
    \/ \E p \in 1..Len(passes) : PassReference(p)
    \/ \E p \in 1..Len(passes) : PassLower(p)
    \/ \E p \in 1..Len(passes) : PassBacklog(p)
    \/ \E p \in 1..Len(passes) : PassVerify(p)
    \/ \E p \in 1..Len(passes), ok \in BOOLEAN : PassFinish(p, ok)

SpecPasses == PassesInit /\ [][PassesNext]_vars


\* The pass of pipeline p has handed its pipelines to _check_pipeline.
HasVerified(p) == passes[p].pc \in {"verified", "succeeded", "failed"}

\* How many times the pipeline with this id is in a list of pipelines.
Occurrences(pipelines, id) == Cardinality(PositionsOf(pipelines, id))

\* The pass of pipeline p verifies the pipelines of the set ids once each, and
\* no other pipeline.
VerifiesExactly(p, ids) ==
    \A q \in 1..Len(world) :
        Occurrences(passes[p].to_check, q) = IF q \in ids THEN 1 ELSE 0

\* The scheduler pipelines whose scheduler workflow had succeeded in project w.
Succeeded(w) == {q \in 1..Len(w) : w[q] = "sched_ok"}

\* The pipelines on the first page of the scheduler branch's listing of w.
OnFirstSchedulerPage(w) ==
    {q \in 1..Len(w) :
        /\ Branch(w[q]) = SCHEDULER_BRANCH
        /\ Cardinality({r \in (q + 1)..Len(w) : Branch(w[r]) = SCHEDULER_BRANCH}) < PageSize}

C6_NothingNewerThanOwn ==
    \A p \in 1..Len(passes) :
        HasVerified(p) =>
            \A i \in 1..Len(passes[p].to_check) : passes[p].to_check[i].id < p

\* C7: while an earlier pass is still in flight, no pipeline is processed both
\* by it and by the current pass.
C7_NoDoubleProcessing ==
    \A p1 \in 1..Len(passes), p2 \in 1..Len(passes) :
        (p1 < p2 /\ passes[p1].pc = "verified" /\ passes[p2].pc = "verified")
        => \A q \in 1..Len(world) :
              ~(Occurrences(passes[p1].to_check, q) > 0
                /\ Occurrences(passes[p2].to_check, q) > 0)


(***************************************************************************)
(* Spec: one run of check_and_schedule (scheduler.py:98-227) on a project  *)
(* that does not change during the run. The calls to the outside world     *)
(* (CircleCI, git, GitHub, Danger) answer nondeterministically.            *)
(***************************************************************************)
\* The reference snapshot of the run and the snapshots a clone can hold.
ReferenceSnapshot ==
    [files |-> [f \in PROTECTED_FILES |-> IF f = "config.yaml" THEN "D1" ELSE None],
     config |-> "cfgA", sha |-> "s1"]
CandidateSnapshots ==
    {ReferenceSnapshot,
     [ReferenceSnapshot EXCEPT !.files = [f \in PROTECTED_FILES |-> "D2"]]}

\* The comments of a pull request before the run: none, or a contributor's
\* comment and the safety-check comment of an earlier run.
EarlierThreads ==
    {<< >>,
     <<[user |-> "contributor", body |-> [title |-> "review"]],
       [user |-> VERIFIER_BOT_NAME,
        body |-> SafetyMessage(<< >>, 0, TRUE, 0)]>>}

\* tempfile.TemporaryDirectory() (scheduler.py:112, 252): the directory of
\* the reference, or of the check of pipeline n.
ReferenceDir == [of |-> "reference", nr |-> 0]
\* CandidateDir with one directory for all the checks of a run.
CandidateDir_shared(n) == [of |-> "candidate", nr |-> 0]
CandidateDir(n) == [of |-> "candidate", nr |-> n]

Pending == [state |-> "pending"]
Raised == [state |-> "raised"]
Returned(value, trace) == [state |-> "returned", value |-> value, trace |-> trace]

\* What can happen to one _run_danger: the prerequisite is missing
\* (scheduler.py:372-377), the symlink or the change of directory fails
\* (lines 366-370, 379), or yarn runs and succeeds, exits with a non-zero
\* code, or fails otherwise (lines 380-386).
DangerOutcomes ==
    {"success", "nonzero exit", "unexpected error", "no node_modules", "symlink error"}

\* A Danger execution handed to the pool and not yet ended.
Submitted == [state |-> "submitted"]

\* _run_danger without its try: the failures of yarn leave the worker as
\* exceptions.
run_danger_unguarded(pr_execution, outcome) ==
    IF outcome \in {"success", "no node_modules"}
    THEN [state |-> "returned", outcome |-> outcome,
          printed |-> <<[what |-> outcome, pull_request |-> pr_execution.pull_request]>>]
    ELSE [state |-> "raised", outcome |-> outcome, printed |-> << >>]

\* scheduler.py:341-386 _run_danger: every outcome but a failure outside the
\* try prints a line naming the pull request and returns; that failure is an
\* exception of the worker, kept in a future nobody reads (line 220).
run_danger(pr_execution, outcome) ==
    IF outcome = "symlink error"
    THEN [state |-> "raised", outcome |-> outcome, printed |-> << >>]
    ELSE [state |-> "returned", outcome |-> outcome,
          printed |-> <<[what |-> outcome, pull_request |-> pr_execution.pull_request]>>]

Init ==
    /\ sc = IdleSc
    /\ fetch = IdleFetch
    /\ passes = IdlePasses
    /\ pool = IdlePool
    /\ world \in Worlds(Kinds, MaxPipelines)
    /\ \E thread \in EarlierThreads : github = [pr \in PullRequests |-> thread]
    /\ effects = [mutations |-> << >>, created |-> {}, released |-> << >>]
    /\ \E own \in {NoId} \cup {n \in 1..Len(world) : world[n] = "sched_run"} :
         run = [pc |-> "start", own |-> own, exit_status |-> -1,
                reference_pipelines |-> << >>, latest_scheduler_pipeline |-> NoId,
                pipelines_to_check |-> << >>, results |-> << >>, sorted |-> << >>,
                loop_i |-> 0, loop_prs |-> {}, prs_to_check |-> {},
                danger_pr_executions |-> << >>, danger |-> << >>]

\* scheduler.py:111-128: the reference directory is created and the reference
\* pipeline looked up; without one the run prints and exits with status 1.
Start ==
    /\ run.pc = "start"
    /\ LET reference_pipelines == fetch_reference_pipelines(world)
       IN  run' = IF no_reference(reference_pipelines)
                  THEN [run EXCEPT !.pc = "halted", !.exit_status = 1]
                  ELSE [run EXCEPT !.pc = "reference",
                                   !.reference_pipelines = reference_pipelines]
    /\ effects' = [effects EXCEPT !.created = @ \cup {ReferenceDir}]
    /\ UNCHANGED <<world, sc, fetch, passes, github, pool>>

\* scheduler.py:130-142: the reference configuration, clone and fingerprints.
\* A failure here, or an empty reference_pipelines, raises out of the run.
Reference(ok) ==
    /\ run.pc = "reference"
    /\ run' = IF ok /\ run.reference_pipelines # << >>
              THEN [run EXCEPT !.pc = "lower"]
              ELSE [run EXCEPT !.pc = "crashed", !.exit_status = 1]
    /\ UNCHANGED <<world, sc, fetch, passes, github, effects, pool>>

\* scheduler.py:144-151
Lower ==
    /\ run.pc = "lower"
    /\ run' = [run EXCEPT !.pc = "backlog",
                          !.latest_scheduler_pipeline = fetch_latest_scheduler_pipeline(world)]
    /\ UNCHANGED <<world, sc, fetch, passes, github, effects, pool>>

\* scheduler.py:153-182: the backlog, cut at the run's own pipeline under
\* CircleCI (own # NoId), is handed to the thread pool.
Backlog ==
    /\ run.pc = "backlog"
    /\ LET fetched == fetch_pipelines_to_check(world, run.latest_scheduler_pipeline)
           to_check == IF run.own # NoId
                       THEN filter_older_than_own(fetched, run.own) ELSE fetched
       IN  run' = [run EXCEPT !.pc = "check",
                              !.pipelines_to_check = to_check,
                              !.results = [i \in 1..Len(to_check) |-> Pending]]
    /\ UNCHANGED <<world, sc, fetch, passes, github, effects, pool>>

\* One worker thread runs _check_pipeline on the i-th pipeline
\* (scheduler.py:179-182, 249-338). The directory is created first; when
\* get_pipeline_config fails (line 253) the call raises.
Check(i, config_ok, checkout_ok, candidate, resolution) ==
    /\ run.pc = "check"
    /\ run.results[i].state = "pending"
    /\ run' = [run EXCEPT !.results[i] =
            IF ~config_ok THEN Raised
            ELSE Returned(check_pipeline(world, run.pipelines_to_check[i], ReferenceSnapshot,
                                         checkout_ok, candidate, resolution),
                          check_trace(world, run.pipelines_to_check[i], checkout_ok, resolution))]
    /\ effects' = [effects EXCEPT !.created = @ \cup {CandidateDir(run.pipelines_to_check[i].number)}]
    /\ UNCHANGED <<world, sc, fetch, passes, github, pool>>

\* The loop taking pull request 1 for a pipeline that names none.
LoopPRs_defaulting(sorted, i) ==
    IF i > Len(sorted) THEN {}
    ELSE IF Truthy(sorted[i].pull_requests) THEN sorted[i].pull_requests[1] ELSE {1}

\* The pull requests the loop of scheduler.py:194-196 visits for the i-th
\* sorted pipeline.
LoopPRs(sorted, i) ==
    IF i <= Len(sorted) /\ Truthy(sorted[i].pull_requests)
    THEN sorted[i].pull_requests[1] ELSE {}

\* scheduler.py:184-191: the pool is left when every check has ended;
\* list(results) raises the exception of a check that raised.
Collect ==
    /\ run.pc = "check"
    /\ \A i \in 1..Len(run.results) : run.results[i].state \in {"returned", "raised"}
    /\ run' =
         IF \E i \in 1..Len(run.results) : run.results[i].state = "raised"
         THEN [run EXCEPT !.pc = "crashed", !.exit_status = 1]
         ELSE LET sorted == sorted_pipelines([i \in 1..Len(run.results) |->
                                                  run.results[i].value])
              IN  [run EXCEPT !.pc = "notify", !.sorted = sorted,
                              !.loop_i = 1, !.loop_prs = LoopPRs(sorted, 1)]
    /\ UNCHANGED <<world, sc, fetch, passes, github, effects, pool>>

\* DangerPRExecution naming the directory of the first pipeline.
DangerPRExecution_first_tree(commit, pull_request, repo_dir) ==
    [commit |-> commit, pull_request |-> pull_request, repo_dir |-> 1]

\* scheduler.py:48-54 DangerPRExecution.
DangerPRExecution(commit, pull_request, repo_dir) ==
    [commit |-> commit, pull_request |-> pull_request, repo_dir |-> repo_dir]

\* One turn of the inner loop of scheduler.py:196-211 for a pull request of
\* the pipeline at loop_i. A pull request already met is passed over;
\* otherwise it is recorded and notified, and a Danger execution is added
\* when the pipeline asks for one. A GitHub call that fails (ok = FALSE)
\* raises out of the run before the comment is written.
LoopPR(pull_request, ok) ==
    /\ run.pc = "notify"
    /\ pull_request \in run.loop_prs
    /\ LET p == run.sorted[run.loop_i]
           message == SafetyMessage(p.check_details, p.commit, p.safe, run.own)
       IN  IF seen(pull_request, run.prs_to_check)
           THEN /\ run' = [run EXCEPT !.loop_prs = @ \ {pull_request}]
                /\ UNCHANGED <<github, effects>>
           ELSE IF ~ok
           THEN /\ run' = [run EXCEPT !.pc = "crashed", !.exit_status = 1,
                                      !.prs_to_check = @ \cup {pull_request}]
                /\ UNCHANGED <<github, effects>>
           ELSE /\ run' = [run EXCEPT
                      !.loop_prs = @ \ {pull_request},
                      !.prs_to_check = @ \cup {pull_request},
                      !.danger_pr_executions =
                          IF p.should_run_danger
                          THEN Append(@, DangerPRExecution(p.commit, pull_request, p.repo_dir))
                          ELSE @]
                /\ github' = [github EXCEPT ![pull_request] = notify_safety_check(@, message)]
                /\ effects' = [effects EXCEPT !.mutations =
                      Append(@, [pull_request |-> pull_request,
                                 pipeline_nr |-> p.pipeline_nr, message |-> message])]
    /\ UNCHANGED <<world, sc, fetch, passes, pool>>

\* scheduler.py:194: the outer loop moves to the next sorted pipeline.
LoopAdvance ==
    /\ run.pc = "notify"
    /\ run.loop_prs = {}
    /\ run.loop_i <= Len(run.sorted)
    /\ run' = [run EXCEPT !.loop_i = @ + 1, !.loop_prs = LoopPRs(run.sorted, run.loop_i + 1)]
    /\ UNCHANGED <<world, sc, fetch, passes, github, effects, pool>>

\* scheduler.py:213-220: the Danger executions are handed to the process pool.
Dispatch ==
    /\ run.pc = "notify"
    /\ run.loop_i > Len(run.sorted)
    /\ run' = [run EXCEPT !.pc = "danger",
                          !.danger = [j \in 1..Len(run.danger_pr_executions) |-> Submitted]]
    /\ UNCHANGED <<world, sc, fetch, passes, github, effects, pool>>

\* scheduler.py:341-386 _run_danger in a worker process of the pool.
RunDanger(j, outcome) ==
    /\ run.pc = "danger"
    /\ run.danger[j].state = "submitted"
    /\ run' = [run EXCEPT !.danger[j] = run_danger(run.danger_pr_executions[j], outcome)]
    /\ UNCHANGED <<world, sc, fetch, passes, github, effects, pool>>

\* scheduler.py:222-227: the pool is left when every worker has returned.
\* `results` was consumed by list(results) at line 186, so the set of
\* candidate directories built from it is empty; the reference directory is
\* released.
Cleanup ==
    /\ run.pc = "danger"
    /\ \A j \in 1..Len(run.danger) : run.danger[j].state # "submitted"
    /\ run' = [run EXCEPT !.pc = "done", !.exit_status = 0]
    /\ effects' = [effects EXCEPT !.released = Append(@, ReferenceDir)]
    /\ UNCHANGED <<world, sc, fetch, passes, github, pool>>

Next ==
    \/ Start
    \/ \E ok \in BOOLEAN : Reference(ok)
    \/ Lower
    \/ Backlog
    \/ \E i \in 1..Len(run.results), config_ok, checkout_ok \in BOOLEAN,
          candidate \in CandidateSnapshots, resolution \in Resolutions :
         Check(i, config_ok, checkout_ok, candidate, resolution)
    \/ Collect
    \/ \E pull_request \in PullRequests, ok \in BOOLEAN : LoopPR(pull_request, ok)
    \/ LoopAdvance
    \/ Dispatch
    \/ \E j \in 1..Len(run.danger) : \E outcome \in DangerOutcomes : RunDanger(j, outcome)
    \/ Cleanup

Spec == Init /\ [][Next]_vars

(***************************************************************************)
(* Properties of one run (Spec).                                           *)
(***************************************************************************)
\* The run has ended: normally, by exit(1), or by an uncaught exception.
Terminal == run.pc \in {"done", "halted", "crashed"}

\* The comment mutations, the Danger executions decided and the Danger runs
\* handed to the process pool for a pull request.
MutationsOf(pr) ==
    {k \in 1..Len(effects.mutations) : effects.mutations[k].pull_request = pr}
ExecutionsOf(pr) ==
    {j \in 1..Len(run.danger_pr_executions) : run.danger_pr_executions[j].pull_request = pr}
DangerRunsOf(pr) ==
    {j \in 1..Len(run.danger) : run.danger_pr_executions[j].pull_request = pr}

\* Pipeline n comes from a fork; the pull request pipeline n was opened for.
Forked(n) == Origin(world[n]) # TargetRepo
BelongsTo(n) ==
    CASE world[n] = "fork1" -> {1} [] world[n] = "fork2" -> {2}
      [] world[n] = "int3" -> {3} [] OTHER -> {}

\* The pipelines of the sorted results that name pull request pr.
SortedFor(pr) ==
    {i \in 1..Len(run.sorted) :
        Truthy(run.sorted[i].pull_requests) /\ pr \in run.sorted[i].pull_requests[1]}

\* C1: when the run has ended, Danger was dispatched for a pull request if and
\* only if the pipeline whose verdict was notified to it is forked and safe.
C1_DangerIffForkedAndSafe ==
    Terminal =>
        \A pr \in PullRequests :
            (DangerRunsOf(pr) # {}) <=>
            (\E k \in MutationsOf(pr) :
                /\ Forked(effects.mutations[k].pipeline_nr)
                /\ effects.mutations[k].message.safe)

\* C3: in one run a pull request gets at most one comment mutation, at most
\* one Danger execution and at most one Danger run.
C3_AtMostOncePerPR ==
    \A pr \in PullRequests :
        /\ Cardinality(MutationsOf(pr)) <= 1
        /\ Cardinality(ExecutionsOf(pr)) <= 1
        /\ Cardinality(DangerRunsOf(pr)) <= 1

\* A finished run in which two checked pipelines name the same pull request,
\* which was notified and handed to Danger.
C3_Witness ==
    /\ run.pc = "done"
    /\ \E pr \in PullRequests :
         /\ Cardinality(SortedFor(pr)) >= 2
         /\ MutationsOf(pr) # {}
         /\ DangerRunsOf(pr) # {}

\* C4: the pipeline notified to a pull request is the highest-numbered
\* pipeline of the backlog that belongs to that pull request.
C4_NewestPipelineDrives ==
    \A k \in 1..Len(effects.mutations) :
        \A i \in 1..Len(run.pipelines_to_check) :
            effects.mutations[k].pull_request \in BelongsTo(run.pipelines_to_check[i].number)
                => run.pipelines_to_check[i].number <= effects.mutations[k].pipeline_nr

\* C10: without a reference pipeline on the trusted branch the run halts with
\* exit status 1, and a halted run has checked no pipeline, created no
\* candidate directory, written no comment and dispatched no Danger run.
C10_HaltsWithoutReference ==
    /\ (run.pc # "start" /\ fetch_reference_pipelines(world) = << >>) => run.pc = "halted"
    /\ run.pc = "halted" =>
         /\ run.exit_status = 1
         /\ run.results = << >> /\ run.pipelines_to_check = << >>
         /\ effects.created \subseteq {ReferenceDir}
         /\ effects.mutations = << >>
         /\ github \in {[pr \in PullRequests |-> thread] : thread \in EarlierThreads}
         /\ run.danger_pr_executions = << >> /\ run.danger = << >>

\* A halted run on a project that has pipelines, none of them a reference.
C10_Witness == run.pc = "halted" /\ Len(world) >= 2

\* The directories created and the cleanup() calls made so far.
Materialized == effects.created
Releases(dir) == {k \in 1..Len(effects.released) : effects.released[k] = dir}

\* C11: a CI-provider call that fails while one pipeline is verified never
\* aborts the run: no run ends by an exception while a check of its backlog
\* has raised.
C11_ProviderFailureNotFatal ==
    ~(run.pc = "crashed" /\ \E i \in 1..Len(run.results) : run.results[i].state = "raised")

\* C12: when the run has reached its end, the directory of every verified
\* pipeline and the reference directory have been released exactly once.
C12_EveryTreeReleasedOnce ==
    run.pc = "done" =>
        /\ Cardinality(Releases(ReferenceDir)) = 1
        /\ \A i \in 1..Len(run.sorted) :
             Cardinality(Releases(CandidateDir(run.sorted[i].repo_dir))) = 1

\* C13: whatever the outcome of the run, as many directories have been
\* released as were created.
C13_ReleasedEqualsMaterialized ==
    Terminal => Len(effects.released) = Cardinality(Materialized)

\* The sorted result of pipeline number n.
ResultOf(n) ==
    run.sorted[CHOOSE i \in 1..Len(run.sorted) : run.sorted[i].pipeline_nr = n]

\* The pull request has a first occurrence in the sorted results, and that
\* pipeline is internal.
DrivenByInternal(pr) ==
    /\ SortedFor(pr) # {}
    /\ ~Forked(run.sorted[Min(SortedFor(pr))].pipeline_nr)

ReturnedChecks == {i \in 1..Len(run.results) : run.results[i].state = "returned"}
NotifiedFrom(n) == {k \in 1..Len(effects.mutations) : effects.mutations[k].pipeline_nr = n}
ActedUpon(n) ==
    {j \in 1..Len(run.danger_pr_executions) : run.danger_pr_executions[j].commit = n}

\* The check of the i-th pipeline: its checkout failed; the resolution of its
\* pull requests raised (the provider's call for an internal pipeline, the
\* parsing of the branch for a forked one); it resolved to no pull request.
CheckoutFailed(i) == ~run.results[i].trace.checkout_ok
ResolutionRaised(i) ==
    /\ run.results[i].trace.checkout_ok
    /\ IF run.results[i].trace.asked
       THEN run.results[i].trace.resolution = "raise"
       ELSE parse_pull_request(run.pipelines_to_check[i].vcs.branch).raised
ZeroPullRequests(i) ==
    /\ run.results[i].trace.asked
    /\ \/ run.results[i].trace.resolution \in {"no_workflows", "no_jobs"}
       \/ /\ run.results[i].trace.resolution = "prs"
          /\ get_workflow_prs(world, run.pipelines_to_check[i].id) = {}

\* C16: a check whose checkout failed returns an unsafe verdict whose detail
\* names the revision and the pipeline, has not asked the provider for pull
\* requests, and its pipeline is neither notified nor acted upon.
C16_CheckoutFailureWithheld ==
    \A i \in ReturnedChecks :
        CheckoutFailed(i) =>
            LET value == run.results[i].value
                pipeline == run.pipelines_to_check[i]
            IN  /\ ~value.safe /\ ~value.should_run_danger
                /\ Len(value.check_details) = 1
                /\ value.check_details[1] =
                     [what |-> "unable to checkout", revision |-> pipeline.vcs.revision,
                      pipeline |-> [number |-> pipeline.number, id |-> pipeline.id]]
                /\ ~run.results[i].trace.asked
                /\ NotifiedFrom(pipeline.number) = {} /\ ActedUpon(pipeline.number) = {}

\* A finished run with a failed checkout of a pipeline of a pull request that
\* another pipeline got notified.
C16_Witness ==
    /\ run.pc = "done"
    /\ \E i \in ReturnedChecks :
         /\ CheckoutFailed(i)
         /\ BelongsTo(run.pipelines_to_check[i].number) # {}
         /\ effects.mutations # << >>

\* C17: a check whose pull-request resolution raised returns, with no pull
\* request and no action; its pipeline is neither notified nor acted upon; and
\* a run whose checks all returned goes on to sort and visit them.
C17_ResolutionErrorCaught ==
    /\ \A i \in ReturnedChecks :
         ResolutionRaised(i) =>
            LET value == run.results[i].value
            IN  /\ value.pull_requests = NoPRs
                /\ ~value.safe /\ ~value.should_run_danger
                /\ NotifiedFrom(value.pipeline_nr) = {} /\ ActedUpon(value.pipeline_nr) = {}
    /\ (run.pc # "check" /\ ReturnedChecks = 1..Len(run.results))
            => Len(run.sorted) = Len(run.results)

\* A finished run in which the resolution raised for a forked and for an
\* internal pipeline and another pipeline was notified.
C17_Witness ==
    /\ run.pc = "done"
    /\ \E i, j \in ReturnedChecks :
         /\ ResolutionRaised(i) /\ run.results[i].trace.asked
         /\ ResolutionRaised(j) /\ ~run.results[j].trace.asked
    /\ effects.mutations # << >>

\* C18: a check that resolved to no pull request (no workflows, no jobs, or a
\* job without a pull request) returns, and its pipeline is neither notified
\* nor acted upon.
C18_NoPullRequestNoAction ==
    \A i \in ReturnedChecks :
        ZeroPullRequests(i) =>
            /\ ~Truthy(run.results[i].value.pull_requests)
            /\ ~run.results[i].value.should_run_danger
            /\ NotifiedFrom(run.results[i].value.pipeline_nr) = {}
            /\ ActedUpon(run.results[i].value.pipeline_nr) = {}

\* A finished run that met the three ways of resolving to no pull request.
C18_Witness ==
    /\ run.pc = "done"
    /\ \E i, j, k \in ReturnedChecks :
         /\ run.results[i].trace.resolution = "no_workflows"
         /\ run.results[j].trace.resolution = "no_jobs"
         /\ run.results[k].trace.resolution = "prs" /\ ZeroPullRequests(k)

\* The failures of a Danger run the code reports.
ReportedFailures == {"nonzero exit", "unexpected error", "no node_modules"}

\* C19: every Danger execution decided is handed to the pool; a Danger run
\* that fails (non-zero exit, unexpected error, missing node_modules) returns
\* after printing a line for its pull request; no run ends by an exception
\* after the dispatch, and a finished run has ended every Danger run with
\* exit status 0.
C19_DangerFailureContained ==
    /\ run.pc \in {"danger", "done"} => Len(run.danger) = Len(run.danger_pr_executions)
    /\ \A j \in 1..Len(run.danger) :
         (run.danger[j].state # "submitted" /\ run.danger[j].outcome \in ReportedFailures) =>
            /\ run.danger[j].state = "returned"
            /\ run.danger[j].printed =
                 <<[what |-> run.danger[j].outcome,
                    pull_request |-> run.danger_pr_executions[j].pull_request]>>
    /\ run.danger # << >> => run.pc \in {"danger", "done"}
    /\ run.pc = "done" =>
         /\ run.exit_status = 0
         /\ \A j \in 1..Len(run.danger) : run.danger[j].state # "submitted"

\* A finished run in which the Danger run of one pull request failed and the
\* Danger run of another succeeded.
C19_Witness ==
    /\ run.pc = "done"
    /\ \E j, k \in 1..Len(run.danger) :
         /\ run.danger[j].outcome \in ReportedFailures
         /\ run.danger[k].outcome = "success"

\* C26: a failing GitHub call while notifying one pull request does not end
\* the run: a run that came to notify ends normally, has visited every pull
\* request its sorted results name, and has handed every Danger execution it
\* decided to the pool.
C26_NotifyFailureNotFatal ==
    (Terminal /\ run.loop_i >= 1) =>
        /\ run.pc = "done"
        /\ \A pr \in PullRequests : SortedFor(pr) # {} => pr \in run.prs_to_check
        /\ Len(run.danger) = Len(run.danger_pr_executions)

\* The checks whose result names the directory of a Danger execution.
VerifiedIn(pr_execution) ==
    {i \in ReturnedChecks : run.results[i].value.repo_dir = pr_execution.repo_dir}

\* C27: every Danger execution runs on what was verified: its directory is
\* the directory created by the check of one pipeline, that check succeeded
\* in checking out the pipeline's revision and returned safe, the commit of
\* the execution is that revision, no other Danger execution has the same
\* directory, and the directory is not released while the Danger run has
\* not ended.
C27_DangerRunsOnVerifiedTree ==
    \A j \in 1..Len(run.danger_pr_executions) :
        LET pr_execution == run.danger_pr_executions[j]
            dir == CandidateDir(pr_execution.repo_dir)
        IN  /\ Cardinality(VerifiedIn(pr_execution)) = 1
            /\ \A i \in VerifiedIn(pr_execution) :
                 /\ run.results[i].trace.checkout_ok
                 /\ run.results[i].value.safe
                 /\ run.pipelines_to_check[i].vcs.revision = pr_execution.commit
                 /\ dir = CandidateDir(run.pipelines_to_check[i].number)
            /\ dir \in Materialized
            /\ \A k \in 1..Len(run.danger_pr_executions) :
                 k # j => run.danger_pr_executions[k].repo_dir # pr_execution.repo_dir
            /\ Releases(dir) # {} =>
                 /\ j <= Len(run.danger)
                 /\ run.danger[j].state # "submitted"

\* A finished run with the Danger runs of two pull requests, both ended.
C27_Witness ==
    /\ run.pc = "done"
    /\ Len(run.danger) = 2
    /\ run.danger_pr_executions[1].pull_request # run.danger_pr_executions[2].pull_request
    /\ \A j \in 1..2 : run.danger[j].outcome = "success"

\* The run has looked up its lower stop token; it has fetched its backlog.
LookedUp == run.pc \in {"backlog", "check", "notify", "danger", "done"}
Fetched == run.pc \in {"check", "notify", "danger", "done"}

\* The ids of a list of pipelines, in the order of the list.
IdsOf(pipelines) == [i \in 1..Len(pipelines) |-> pipelines[i].id]

NotifyThreads ==
    LET review == [user |-> "contributor", body |-> [title |-> "review"]]
        quote == [user |-> "contributor", body |-> [title |-> SafetyTitle]]
        danger == [user |-> VERIFIER_BOT_NAME, body |-> [title |-> "danger"]]
    IN  {<< >>, <<review>>, <<quote>>, <<danger>>, <<quote, danger>>}

\* The messages of the calls (scheduler.py:417-432).
NotifyMessages ==
    {SafetyMessage(details, commit, safe, 0) :
        details \in {<< >>, file_finding("modified", {"config.yaml"})},
        commit \in 1..2, safe \in BOOLEAN}

NotifyInit ==
    /\ world = IdleWorld
    /\ pool = IdlePool
    /\ sc = IdleSc
    /\ fetch = IdleFetch
    /\ passes = IdlePasses
    /\ effects = [mutations |-> << >>, created |-> {}, released |-> << >>]
    /\ \E thread \in NotifyThreads :
         /\ run = [pc |-> "notifier", before |-> thread]
         /\ github = [pr \in PullRequests |-> thread]

\* One call _notify_safety_check(..., pull_request, ...) that returns.
NotifyCall(pull_request, message) ==
    /\ Len(effects.mutations) < MaxCalls
    /\ github' = [github EXCEPT ![pull_request] = notify_safety_check(@, message)]
    /\ effects' = [effects EXCEPT !.mutations =
          Append(@, [pull_request |-> pull_request,
                     pipeline_nr |-> message.commit, message |-> message])]
    /\ UNCHANGED <<world, sc, fetch, passes, run, pool>>

NotifyNext ==
    \E pull_request \in PullRequests, message \in NotifyMessages :
        NotifyCall(pull_request, message)

SpecNotify == NotifyInit /\ [][NotifyNext]_vars

\* C14: after any number of calls for a pull request that had no
\* safety-check comment of the bot, its thread is the initial thread followed
\* by one comment of the bot holding the latest message: the first call
\* created it, every later call edited it, and it is the only comment of the
\* bot with the title.
C14_OneCommentHoldsLatest ==
    \A pr \in PullRequests :
        IF MutationsOf(pr) = {}
        THEN github[pr] = run.before
        ELSE /\ github[pr] = Append(run.before,
                    [user |-> VERIFIER_BOT_NAME,
                     body |-> effects.mutations[Max(MutationsOf(pr))].message])
             /\ Cardinality(left_comments(github[pr])) = 1

\* A pull request notified three times, last with a message that differs from
\* the first, in a thread that began with a quote of the title and a Danger
\* comment of the bot.
C14_Witness ==
    /\ Len(run.before) = 2
    /\ \E pr \in PullRequests :
         /\ Cardinality(MutationsOf(pr)) = 3
         /\ effects.mutations[1].message # effects.mutations[3].message

(***************************************************************************)
(* SpecWorkers: the process pool of scheduler.py:219-220 running           *)
(* _run_danger (lines 341-386) with utils.cd (utils.py:25-39). pool.cwd    *)
(* is the working directory of every address space: the scheduler's own    *)
(* process, in which the verification threads of lines 179-182 run and     *)
(* which never enters cd, and the process of each worker.                  *)
(***************************************************************************)
\* scheduler.py:58.
MAX_PROCESSES == 4
PoolWorkers == 1..MAX_PROCESSES

\* The scheduler's process, and the directory it was started in.
MainProcess == <<"main", 0>>
PROJECT_PATH == [of |-> "project", nr |-> 0]

\* The workers as threads of the scheduler's process.
shared_address_space(worker) == MainProcess

\* scheduler.py:219: ProcessPoolExecutor, every worker is a process of its own.
address_space(worker) == <<"worker", worker>>

AddressSpaces == {MainProcess} \cup {<<"worker", worker>> : worker \in PoolWorkers}

IdleWorker == [pc |-> "idle", task |-> 0, prev_dir |-> PROJECT_PATH]

\* The workers inside the body of utils.cd in address space a.
InsideCd(a) ==
    {worker \in PoolWorkers :
        address_space(worker) = a /\ pool.workers[worker].pc \in {"inside", "leaving"}}

WorkersInit ==
    /\ world = IdleWorld
    /\ sc = IdleSc
    /\ fetch = IdleFetch
    /\ passes = IdlePasses
    /\ run = IdleRun /\ github = IdleGithub /\ effects = IdleEffects
    /\ \E n \in 1..MaxTasks :
         pool = [cwd |-> [a \in AddressSpaces |-> PROJECT_PATH],
                 tasks |-> [j \in 1..n |-> "queued"],
                 workers |-> [worker \in PoolWorkers |-> IdleWorker]]

\* An idle worker takes the next queued execution of executor.map.
Take(worker, j) ==
    /\ pool.workers[worker].pc = "idle"
    /\ pool.tasks[j] = "queued"
    /\ \A k \in 1..(j - 1) : pool.tasks[k] # "queued"
    /\ pool' = [pool EXCEPT !.tasks[j] = "running",
                            !.workers[worker] = [@ EXCEPT !.pc = "start", !.task = j]]
    /\ UNCHANGED <<world, sc, fetch, passes, run, github, effects>>

\* scheduler.py:364-377: without node_modules the task prints and returns;
\* a symlink that fails raises; otherwise the task goes on to cd.
Prepare(worker, outcome) ==
    /\ pool.workers[worker].pc = "start"
    /\ pool' = IF outcome = "linked"
               THEN [pool EXCEPT !.workers[worker].pc = "cd"]
               ELSE [pool EXCEPT !.tasks[pool.workers[worker].task] = outcome,
                                 !.workers[worker] = IdleWorker]
    /\ UNCHANGED <<world, sc, fetch, passes, run, github, effects>>

\* utils.py:33-34: prev_dir = os.getcwd(); os.chdir(new_dir). A chdir that
\* fails raises before the try and leaves the directory as it was.
EnterCd(worker, ok) ==
    /\ pool.workers[worker].pc = "cd"
    /\ pool' = IF ok
               THEN [pool EXCEPT
                       !.workers[worker].pc = "inside",
                       !.workers[worker].prev_dir = pool.cwd[address_space(worker)],
                       !.cwd[address_space(worker)] = CandidateDir(pool.workers[worker].task)]
               ELSE [pool EXCEPT !.tasks[pool.workers[worker].task] = "symlink error",
                                 !.workers[worker] = IdleWorker]
    /\ UNCHANGED <<world, sc, fetch, passes, run, github, effects>>

\* scheduler.py:380-386: yarn runs in the directory; whatever it does, the
\* body of the with statement ends.
Body(worker, outcome) ==
    /\ pool.workers[worker].pc = "inside"
    /\ pool' = [pool EXCEPT !.workers[worker].pc = "leaving",
                            !.tasks[pool.workers[worker].task] = outcome]
    /\ UNCHANGED <<world, sc, fetch, passes, run, github, effects>>

\* utils.py:37-38: finally os.chdir(prev_dir).
LeaveCd(worker) ==
    /\ pool.workers[worker].pc = "leaving"
    /\ pool' = [pool EXCEPT !.cwd[address_space(worker)] = pool.workers[worker].prev_dir,
                            !.workers[worker] = IdleWorker]
    /\ UNCHANGED <<world, sc, fetch, passes, run, github, effects>>

WorkersNext ==
    \/ \E worker \in PoolWorkers : \E j \in 1..Len(pool.tasks) : Take(worker, j)
    \/ \E worker \in PoolWorkers :
         \E outcome \in {"linked", "no node_modules", "symlink error"} : Prepare(worker, outcome)
    \/ \E worker \in PoolWorkers : \E ok \in BOOLEAN : EnterCd(worker, ok)
    \/ \E worker \in PoolWorkers :
         \E outcome \in {"success", "nonzero exit", "unexpected error"} : Body(worker, outcome)
    \/ \E worker \in PoolWorkers : LeaveCd(worker)

SpecWorkers == WorkersInit /\ [][WorkersNext]_vars

\* C20: in every address space at most one worker is inside cd at a time; cd
\* is never entered in the scheduler's process, whose directory never changes; a
\* worker inside cd is in the directory of its own task; and an address space
\* with no worker inside cd is back in the directory it started in.
C20_OneDirectoryChangeAtATime ==
    /\ \A a \in AddressSpaces : Cardinality(InsideCd(a)) <= 1
    /\ InsideCd(MainProcess) = {}
    /\ pool.cwd[MainProcess] = PROJECT_PATH
    /\ \A worker \in PoolWorkers :
         pool.workers[worker].pc \in {"inside", "leaving"} =>
            pool.cwd[address_space(worker)] = CandidateDir(pool.workers[worker].task)
    /\ \A a \in AddressSpaces : InsideCd(a) = {} => pool.cwd[a] = PROJECT_PATH

\* Two workers are inside cd at the same time, each in its own process, after
\* a third execution ended with a failure of yarn.
C20_Witness ==
    /\ \E v, w \in PoolWorkers :
         /\ v # w
         /\ pool.workers[v].pc = "inside" /\ pool.workers[w].pc = "inside"
    /\ \E j \in 1..Len(pool.tasks) : pool.tasks[j] = "unexpected error"
    /\ \A worker \in PoolWorkers : pool.workers[worker].pc \notin {"leaving"}


(***************************************************************************)
(* SpecOverlap: the notifiers of scheduler runs that overlap (two cron      *)
(* pipelines, or a cron pipeline and a run started by hand). A call of      *)
(* _notify_safety_check reads the comments of the pull request              *)
(* (scheduler.py:434-440) and then writes (lines 442-447); GitHub serves    *)
(* the requests of the runs one at a time, in any order.                    *)
(***************************************************************************)
Runs == 1..MaxRuns

NoCall == [pc |-> "idle"]

OverlapInit ==
    /\ world = IdleWorld
    /\ pool = IdlePool
    /\ sc = IdleSc
    /\ fetch = IdleFetch
    /\ passes = IdlePasses
    /\ effects = [mutations |-> << >>, created |-> {}, released |-> << >>]
    /\ \E thread \in NotifyThreads :
         /\ run = [pc |-> "notifiers", before |-> thread, calls |-> [r \in Runs |-> NoCall]]
         /\ github = [pr \in PullRequests |-> thread]

\* scheduler.py:434-440: a run's notifier reads the comments of the pull
\* request and finds the safety-check comments the bot left.
NotifierRead(r, pull_request, message) ==
    /\ run.calls[r].pc = "idle"
    /\ Len(effects.mutations)
         + Cardinality({q \in Runs : run.calls[q].pc = "read"}) < MaxCalls
    /\ run' = [run EXCEPT !.calls[r] =
            [pc |-> "read", pull_request |-> pull_request, message |-> message,
             left_comments |-> left_comments(github[pull_request])]]
    /\ UNCHANGED <<world, sc, fetch, passes, github, effects, pool>>

\* scheduler.py:442-447: the notifier edits the first comment it found, or
\* creates one when it found none.
NotifierWrite(r) ==
    /\ run.calls[r].pc = "read"
    /\ LET call == run.calls[r]
       IN  /\ github' = [github EXCEPT ![call.pull_request] =
                  IF call.left_comments # {}
                  THEN [@ EXCEPT ![Min(call.left_comments)].body = call.message]
                  ELSE Append(@, [user |-> VERIFIER_BOT_NAME, body |-> call.message])]
           /\ effects' = [effects EXCEPT !.mutations =
                  Append(@, [pull_request |-> call.pull_request,
                             pipeline_nr |-> call.message.commit, message |-> call.message])]
    /\ run' = [run EXCEPT !.calls[r] = NoCall]
    /\ UNCHANGED <<world, sc, fetch, passes, pool>>

OverlapNext ==
    \/ \E r \in Runs, pull_request \in PullRequests, message \in NotifyMessages :
         NotifierRead(r, pull_request, message)
    \/ \E r \in Runs : NotifierWrite(r)

SpecOverlap == OverlapInit /\ [][OverlapNext]_vars

\* C25: at every moment, whatever runs notify and however they overlap, a
\* pull request carries at most one safety-check comment of the bot.
C25_AtMostOneBotComment ==
    \A pr \in PullRequests : Cardinality(left_comments(github[pr])) <= 1

(***************************************************************************)
(* SpecThreads: the thread pool of scheduler.py:174-211. Each worker thread *)
(* runs _check_pipeline on one pipeline of the backlog: it starts (its      *)
(* directory is created, the configuration asked for, the repository cloned *)
(* into the directory) and later ends (the fingerprints are read from the   *)
(* directory, the verdict computed, the pull requests resolved). Starts and *)
(* ends of different threads interleave freely. What the outside world      *)
(* answers to a check is drawn when the check starts.                       *)
(***************************************************************************)
\* scheduler.py:59
MAX_THREADS == 4

\* The kinds of pipeline in the backlog: pipelines of one forked pull request
\* and of the internal one.
ThreadKinds == {"fork1", "int3"}

\* What the outside world answers to the check of a pipeline of kind k. The
\* answers that are never asked for are left at their first value.
Answers(k) ==
    {[config_ok |-> FALSE, checkout_ok |-> FALSE, candidate |-> ReferenceSnapshot,
      resolution |-> "prs"],
     [config_ok |-> TRUE, checkout_ok |-> FALSE, candidate |-> ReferenceSnapshot,
      resolution |-> "prs"]}
    \cup {[config_ok |-> TRUE, checkout_ok |-> TRUE, candidate |-> c, resolution |-> r] :
            c \in CandidateSnapshots,
            r \in IF Origin(k) = TargetRepo THEN Resolutions ELSE {"prs"}}

NoAnswer ==
    [config_ok |-> FALSE, checkout_ok |-> FALSE, candidate |-> ReferenceSnapshot,
     resolution |-> "unasked"]

Running == [state |-> "running"]

ThreadsInit ==
    /\ sc = IdleSc
    /\ fetch = IdleFetch
    /\ passes = IdlePasses
    /\ pool = IdlePool
    /\ world \in Worlds(ThreadKinds, MaxPipelines)
    /\ github = [pr \in PullRequests |-> << >>]
    /\ effects = [mutations |-> << >>, created |-> {}, released |-> << >>, trees |-> << >>]
    /\ LET to_check == Listing(world, NoBranch)
       IN  run = [pc |-> "check", own |-> NoId, exit_status |-> -1,
                  reference_pipelines |-> << >>, latest_scheduler_pipeline |-> NoId,
                  pipelines_to_check |-> to_check,
                  results |-> [i \in 1..Len(to_check) |-> Pending],
                  answers |-> [i \in 1..Len(to_check) |-> NoAnswer],
                  completed |-> << >>,
                  sorted |-> << >>, loop_i |-> 0, loop_prs |-> {}, prs_to_check |-> {},
                  danger_pr_executions |-> << >>, danger |-> << >>]

\* The tree found in a directory: the candidate last cloned into it.
TreeIn(dir) ==
    LET writes == {k \in 1..Len(effects.trees) : effects.trees[k].dir = dir}
    IN  effects.trees[Max(writes)].tree

\* A worker thread takes the i-th pipeline (scheduler.py:179-182) and runs
\* _check_pipeline up to the clone (lines 249-259): the directory is
\* created, and the candidate is cloned into it when the configuration was
\* returned and the checkout succeeds.
ThreadStart(i, answer) ==
    /\ run.pc = "check"
    /\ run.results[i].state = "pending"
    /\ Cardinality({k \in 1..Len(run.results) : run.results[k].state = "running"}) < MAX_THREADS
    /\ answer \in Answers(world[run.pipelines_to_check[i].number])
    /\ LET dir == CandidateDir(run.pipelines_to_check[i].number)
       IN  effects' = [effects EXCEPT
                !.created = @ \cup {dir},
                !.trees = IF answer.config_ok /\ answer.checkout_ok
                          THEN Append(@, [dir |-> dir, tree |-> answer.candidate])
                          ELSE @]
    /\ run' = [run EXCEPT !.results[i] = Running, !.answers[i] = answer]
    /\ UNCHANGED <<world, sc, fetch, passes, github, pool>>

\* The thread of the i-th pipeline ends _check_pipeline (scheduler.py:253-338):
\* by the exception of get_pipeline_config, or with the result computed from
\* the tree in its directory.
ThreadEnd(i) ==
    /\ run.pc = "check"
    /\ run.results[i].state = "running"
    /\ LET pipeline == run.pipelines_to_check[i]
           answer == run.answers[i]
           candidate == IF answer.checkout_ok
                        THEN TreeIn(CandidateDir(pipeline.number))
                        ELSE answer.candidate
       IN  run' = [run EXCEPT
                !.results[i] =
                    IF ~answer.config_ok THEN Raised
                    ELSE Returned(check_pipeline(world, pipeline, ReferenceSnapshot,
                                      answer.checkout_ok, candidate, answer.resolution),
                                  check_trace(world, pipeline, answer.checkout_ok,
                                              answer.resolution)),
                !.completed = Append(@, i)]
    /\ UNCHANGED <<world, sc, fetch, passes, github, effects, pool>>

ThreadsNext ==
    \/ \E i \in 1..Len(run.results) :
         \E answer \in Answers("fork1") \cup Answers("int3") : ThreadStart(i, answer)
    \/ \E i \in 1..Len(run.results) : ThreadEnd(i)
    \/ Collect
    \/ \E pull_request \in PullRequests, ok \in BOOLEAN : LoopPR(pull_request, ok)
    \/ LoopAdvance
    \/ Dispatch

SpecThreads == ThreadsInit /\ [][ThreadsNext]_vars

\* What the check of the i-th pipeline returns for the answers it was given.
ExpectedResult(i) ==
    check_pipeline(world, run.pipelines_to_check[i], ReferenceSnapshot,
                   run.answers[i].checkout_ok, run.answers[i].candidate,
                   run.answers[i].resolution)

\* The results by descending pipeline number, from the pipelines and their
\* answers alone.
ExpectedSorted ==
    sorted_pipelines([i \in 1..Len(run.pipelines_to_check) |-> ExpectedResult(i)])

\* The pipelines of sorted results that name a pull request; the first one,
\* the newest, decides for it.
DriversOf(sorted, pr) ==
    {k \in 1..Len(sorted) : Truthy(sorted[k].pull_requests) /\ pr \in sorted[k].pull_requests[1]}
DriverOf(sorted, pr) == sorted[Min(DriversOf(sorted, pr))]

\* The decisions that follow from sorted results: who is notified of what,
\* and for whom Danger runs on which commit and tree.
NotificationsFrom(sorted) ==
    {[pull_request |-> pr, pipeline_nr |-> DriverOf(sorted, pr).pipeline_nr,
      message |-> SafetyMessage(DriverOf(sorted, pr).check_details,
                                DriverOf(sorted, pr).commit,
                                DriverOf(sorted, pr).safe, run.own)] :
        pr \in {q \in PullRequests : DriversOf(sorted, q) # {}}}
ExecutionsFrom(sorted) ==
    {DangerPRExecution(DriverOf(sorted, pr).commit, pr, DriverOf(sorted, pr).repo_dir) :
        pr \in {q \in PullRequests :
                    DriversOf(sorted, q) # {} /\ DriverOf(sorted, q).should_run_danger}}

\* C24: whatever the order in which the checks start and end, each check
\* returns what its own pipeline and answers determine, the results are
\* sorted the same way, and the run that reaches the dispatch has notified
\* the same pull requests of the same verdicts and commits and decided the
\* same Danger executions.
C24_OrderIndependentDecisions ==
    /\ run.pc = "check" =>
         \A i \in 1..Len(run.results) :
            /\ run.results[i].state = "returned" => run.results[i].value = ExpectedResult(i)
            /\ run.results[i].state = "raised" => ~run.answers[i].config_ok
    /\ run.pc \in {"notify", "danger"} =>
         LET expected == ExpectedSorted
         IN  /\ run.sorted = expected
             /\ run.pc = "danger" =>
                  /\ {effects.mutations[k] : k \in 1..Len(effects.mutations)}
                         = NotificationsFrom(expected)
                  /\ {run.danger_pr_executions[j] : j \in 1..Len(run.danger_pr_executions)}
                         = ExecutionsFrom(expected)

\* A run reached the dispatch after three checks that all ran at once and
\* ended in another order than the backlog's, two of them for the same pull
\* request with different verdicts; a notification and a Danger execution
\* were decided.
C24_Witness ==
    /\ run.pc = "danger"
    /\ Len(run.completed) = 3
    /\ run.completed[1] > run.completed[2]
    /\ Cardinality({tr.dir : tr \in {effects.trees[k] : k \in 1..Len(effects.trees)}}) = 3
    /\ \E i, j \in 1..Len(run.results) :
         /\ i # j
         /\ run.results[i].value.pull_requests = run.results[j].value.pull_requests
         /\ Truthy(run.results[i].value.pull_requests)
         /\ run.results[i].value.safe # run.results[j].value.safe
    /\ effects.mutations # << >>
    /\ run.danger_pr_executions # << >>

====
